---- MODULE Spec2Model ----
(***************************************************************************)
(* clarg: command line argument parser (src/src/lib.rs).                   *)
(*                                                                         *)
(* The model follows one process: the builder chain                        *)
(*   ArgParser::new(..).arg(..).add_group(..) ... .parse()                 *)
(* and then ArgParser::parse, one loop iteration per step: the scan of the *)
(* token stream, the group checks, the required-argument check, and the    *)
(* return of the ArgMap or the call of process::exit.                      *)
(*                                                                         *)
(* Strings are sequences of one-character strings, so that starts_with,    *)
(* skip_while and str::parse are computed character by character as the   *)
(* code computes them.  Every character of the model is ASCII, so the byte *)
(* length String::len() is the length of the sequence.                     *)
(***************************************************************************)
EXTENDS Integers, Sequences, FiniteSets, TLC

\* ------------------------------------------------------------------ bounds
\* arg() calls that register a spec
MaxArgs == 2
\* add_group() calls
MaxGroups == 1
\* tokens of std::env::args().skip(1)
MaxTokens == 3

\* ------------------------------------------------------------- characters
Digits == <<"0", "1", "2", "3", "4", "5", "6", "7", "8", "9">>

IsDigit(c) == \E d \in 1..10 : Digits[d] = c

\* char::to_digit(10) of a decimal digit
DigitVal(c) == (CHOOSE d \in 1..10 : Digits[d] = c) - 1

\* u8::to_ascii_lowercase on the letters that dec2flt's inf/nan words use
ToLower(c) ==
  CASE c = "I" -> "i"
    [] c = "N" -> "n"
    [] c = "F" -> "f"
    [] c = "A" -> "a"
    [] c = "T" -> "t"
    [] c = "Y" -> "y"
    [] OTHER -> c

\* str::starts_with(c)
starts_with(s, c) == Len(s) > 0 /\ s[1] = c

\* arg.chars().skip_while(|c| *c == '-').collect()
RECURSIVE skip_dashes(_)
skip_dashes(s) ==
  IF Len(s) > 0 /\ s[1] = "-" THEN skip_dashes(Tail(s)) ELSE s

\* ------------------------------------------------------- i32 as FromStr
I32_MAX == 2147483647
I32_MIN == (-I32_MAX) - 1

Ok(v) == [ok |-> TRUE, val |-> v]
Err == [ok |-> FALSE, val |-> 0]

\* i32::checked_mul(10): None (here Err) when the product leaves the i32 range
checked_mul10(x) ==
  IF x > I32_MAX \div 10 \/ x < -(I32_MAX \div 10) THEN Err ELSE Ok(x * 10)

\* i32::checked_add of a digit
checked_add(x, d) == IF x > I32_MAX - d THEN Err ELSE Ok(x + d)

\* i32::checked_sub of a digit
checked_sub(x, d) == IF x < I32_MIN + d THEN Err ELSE Ok(x - d)

\* The digit loop of <i32 as FromStr>::from_str: result = result * 10 (checked),
\* then result + digit (checked) for a positive literal and result - digit
\* (checked) for a negative one; a non-digit is InvalidDigit.
RECURSIVE accumulate(_, _, _, _)
accumulate(s, i, is_positive, result) ==
  IF i > Len(s) THEN Ok(result)
  ELSE IF ~IsDigit(s[i]) THEN Err
  ELSE LET mul == checked_mul10(result) IN
       IF ~mul.ok THEN Err
       ELSE LET nxt == IF is_positive THEN checked_add(mul.val, DigitVal(s[i]))
                       ELSE checked_sub(mul.val, DigitVal(s[i]))
            IN IF ~nxt.ok THEN Err
               ELSE accumulate(s, i + 1, is_positive, nxt.val)

\* value.parse::<i32>(): empty is an error, a lone sign is an error, one leading
\* '+' or '-' is the sign, the rest must be digits within the 32-bit range.
parse_i32(s) ==
  IF Len(s) = 0 THEN Err
  ELSE IF Len(s) = 1 /\ s[1] \in {"+", "-"} THEN Err
  ELSE IF s[1] = "+" THEN accumulate(s, 2, TRUE, 0)
  ELSE IF s[1] = "-" THEN accumulate(s, 2, FALSE, 0)
  ELSE accumulate(s, 1, TRUE, 0)

\* ------------------------------------------------------- f32 as FromStr
\* first index >= i of s that holds no decimal digit
RECURSIVE take_digits(_, _)
take_digits(s, i) ==
  IF i <= Len(s) /\ IsDigit(s[i]) THEN take_digits(s, i + 1) ELSE i

lowered(s) == [i \in 1..Len(s) |-> ToLower(s[i])]

\* value.parse::<f32>().is_ok(): an optional sign, then either digits with an
\* optional fraction (at least one digit in all) and an optional exponent
\* e[+-]digits, or one of inf, infinity, nan in any letter case.  A literal too
\* large for f32 parses to infinity, so only the syntax decides.
parse_f32_is_ok(s) ==
  IF Len(s) = 0 THEN FALSE
  ELSE
    LET i0 == IF s[1] \in {"+", "-"} THEN 2 ELSE 1
        i1 == take_digits(s, i0)
        dot == i1 <= Len(s) /\ s[i1] = "."
        i2 == IF dot THEN take_digits(s, i1 + 1) ELSE i1
        ndigits == (i1 - i0) + (IF dot THEN i2 - (i1 + 1) ELSE 0)
        hasexp == i2 <= Len(s) /\ s[i2] \in {"e", "E"}
        i3 == IF i2 + 1 <= Len(s) /\ s[i2 + 1] \in {"+", "-"} THEN i2 + 2 ELSE i2 + 1
        i4 == take_digits(s, i3)
        rest == lowered(SubSeq(s, i0, Len(s)))
    IN \/ /\ ndigits > 0
          /\ \/ i2 > Len(s)
             \/ hasexp /\ i4 > i3 /\ i4 > Len(s)
       \/ rest \in { <<"i", "n", "f">>, <<"n", "a", "n">>,
                     <<"i", "n", "f", "i", "n", "i", "t", "y">> }

\* ---------------------------------------------------------------- Arg
None == <<>>
Some(c) == <<c>>

\* Arg::new(): Arg::default()
Arg_new ==
  [long_name |-> <<>>, short_name |-> None, kind |-> "String",
   required |-> FALSE, scanned |-> FALSE]

Arg_boolean(name, short_name) ==
  [Arg_new EXCEPT !.long_name = name, !.kind = "Boolean", !.required = FALSE,
                  !.short_name = short_name]

Arg_string(long_name, short_name, required) ==
  [Arg_new EXCEPT !.long_name = long_name, !.short_name = short_name,
                  !.kind = "String", !.required = required]

Arg_integer(long_name, short_name, required) ==
  [Arg_new EXCEPT !.long_name = long_name, !.short_name = short_name,
                  !.kind = "Integer", !.required = required]

Arg_float(long_name, short_name, option) ==
  [Arg_new EXCEPT !.long_name = long_name, !.short_name = short_name,
                  !.kind = "Float", !.required = option]

\* ------------------------------------------------------------ ArgGroup
ArgGroup_new(kind, args1, args2, required) ==
  [kind |-> kind, args |-> args1, parents |-> args2, required |-> required]

ArgGroup_allow_when(required, args, parents) ==
  ArgGroup_new("OnlyWhen", args, parents, required)

ArgGroup_exclusive(required, args) ==
  ArgGroup_new("Exclusive", args, <<>>, required)

\* Vec<String>::contains
contains(v, name) == \E i \in 1..Len(v) : v[i] = name

\* ---------------------------------------------------- the inputs explored
n_verbose == <<"v", "e", "r", "b", "o", "s", "e">>
n_path == <<"p", "a", "t", "h">>
n_count == <<"c", "o", "u", "n", "t">>
n_rate == <<"r", "a", "t", "e">>
n_json == <<"j", "s", "o", "n">>
n_help == <<"h", "e", "l", "p">>

\* the specs a caller passes to arg()
ArgPool ==
  { Arg_boolean(n_verbose, Some("V")),
    Arg_string(n_path, Some("f"), TRUE),
    Arg_integer(n_count, Some("c"), FALSE),
    Arg_float(n_rate, Some("V"), TRUE),
    Arg_string(n_help, None, FALSE),
    Arg_boolean(n_json, Some("h")) }

\* the groups a caller passes to add_group()
GroupPool ==
  { ArgGroup_exclusive(TRUE, <<n_verbose, n_count>>),
    ArgGroup_exclusive(FALSE, <<n_verbose, n_count>>),
    ArgGroup_allow_when(TRUE, <<n_count>>, <<n_verbose>>),
    ArgGroup_allow_when(FALSE, <<n_count>>, <<n_verbose>>) }

t_help == <<"-", "-">> \o n_help
t_h == <<"-", "h">>

\* the tokens the process may be started with
TokenPool ==
  { t_help, t_h,
    <<"-", "-">> \o n_verbose, <<"-", "V">>,
    <<"-", "f">>,
    <<"-", "-">> \o n_count, <<"-", "c">>,
    <<"-", "-">> \o n_rate,
    <<"/", "t", "m", "p">>,
    <<"5">>,
    <<"-", "5">>,
    <<"2", "1", "4", "7", "4", "8", "3", "6", "4", "8">> }

\* ------------------------------------------------------------------ state
VARIABLES
  args,          \* ArgParser.args: Vec<Arg>
  groups,        \* ArgParser.groups: Vec<ArgGroup>
  call,          \* the method of the builder chain called last, with its argument
  argument_map,  \* parse's argument_map, then ArgMap.inner
  arguments,     \* what the iterator std::env::args().skip(1) has yielded so far
  pc,            \* where the process is
  gi,            \* index of the group under check in `for group in &self.groups`
  exit_code,     \* status passed to process::exit, -1 while the process runs
  diagnostic     \* what was printed before process::exit

vars ==
  <<args, groups, call, argument_map, arguments, pc, gi, exit_code, diagnostic>>

NoDiagnostic == [msg |-> "", subject |-> <<>>]

\* HashMap::new()
EmptyMap == [k \in {} |-> <<>>]

\* HashMap::insert
insert(m, k, v) == [x \in DOMAIN m \cup {k} |-> IF x = k THEN v ELSE m[x]]

\* ArgParser::new
Init ==
  /\ args = <<>>
  /\ groups = <<>>
  /\ call = [op |-> "new"]
  /\ argument_map = EmptyMap
  /\ arguments = <<>>
  /\ pc = "build"
  /\ gi = 0
  /\ exit_code = -1
  /\ diagnostic = NoDiagnostic

\* ------------------------------------------------------------ registration
\* accepted with `||` for `&&`
accepted_either(arg) == arg.long_name # n_help \/ arg.short_name # Some("h")

\* the test of ArgParser::arg: "we don't allow overriding help"
accepted(arg) == arg.long_name # n_help /\ arg.short_name # Some("h")

\* ArgParser::arg
Arg(arg) ==
  /\ pc = "build"
  /\ Len(args) < MaxArgs
  /\ args' = IF accepted(arg) THEN Append(args, arg) ELSE args
  /\ call' = [op |-> "arg", arg |-> arg]
  /\ UNCHANGED <<groups, argument_map, arguments, pc, gi, exit_code, diagnostic>>

\* ArgParser::add_group
AddGroup(group) ==
  /\ pc = "build"
  /\ Len(groups) < MaxGroups
  /\ groups' = Append(groups, group)
  /\ call' = [op |-> "add_group", group |-> group]
  /\ UNCHANGED <<args, argument_map, arguments, pc, gi, exit_code, diagnostic>>

\* ArgParser::parse, up to the loop: the map is created empty
ParseBegin ==
  /\ pc = "build"
  /\ argument_map' = EmptyMap
  /\ call' = [op |-> "parse"]
  /\ pc' = "scan"
  /\ UNCHANGED <<args, groups, arguments, gi, exit_code, diagnostic>>

\* ------------------------------------------------------------------- scan
\* Iterator::next on the arguments after n of them were yielded: None, or
\* Some(token).  The process's argument vector is the environment's choice.
next_of(n) ==
  {None} \cup (IF n < MaxTokens THEN {Some(t) : t \in TokenPool} ELSE {})

\* a token the iterator yielded: bound to `arg` by the loop head, or to `value`
\* by the arguments.next() of a String, Integer or Float branch
yielded(tok, role) == [tok |-> tok, role |-> role]

\* the closure of self.args.iter_mut().find(..)
matches(arg, arg_name) ==
  \/ arg.long_name = arg_name
  \/ Len(arg_name) = 1 /\ Some(arg_name[1]) = arg.short_name

\* self.args.iter_mut().find(..): the index of the first match, 0 for None
find(arg_name) ==
  IF \E i \in 1..Len(args) : matches(args[i], arg_name)
  THEN CHOOSE i \in 1..Len(args) :
         /\ matches(args[i], arg_name)
         /\ \A j \in 1..(i - 1) : ~matches(args[j], arg_name)
  ELSE 0

\* is_help without the short form
is_help_long_only(arg) == arg = t_help

is_help(arg) == arg = t_help \/ arg = t_h

\* eprintln!(..); self.usage(); exit(code)
Exit(code, msg, subject) ==
  /\ pc' = "exited"
  /\ exit_code' = code
  /\ diagnostic' = [msg |-> msg, subject |-> subject]

\* Store with the key taken from the alias when the spec has one
Store_under_alias(i, value) ==
  /\ args' = [args EXCEPT ![i].scanned = TRUE]
  /\ argument_map' = insert(argument_map,
                            IF args[i].short_name # None THEN args[i].short_name
                            ELSE args[i].long_name, value)

\* Store with the Boolean branch's insert in every branch
Store_true(i, value) ==
  /\ args' = [args EXCEPT ![i].scanned = TRUE]
  /\ argument_map' = insert(argument_map, args[i].long_name, <<"t", "r", "u", "e">>)

\* Store without `inner.scanned = true`
Store_unmarked(i, value) ==
  /\ args' = args
  /\ argument_map' = insert(argument_map, args[i].long_name, value)

\* inner.scanned = true; argument_map.insert(inner.long_name.clone(), value)
Store(i, value) ==
  /\ args' = [args EXCEPT ![i].scanned = TRUE]
  /\ argument_map' = insert(argument_map, args[i].long_name, value)

\* ScanEnd that goes to the required-spec check without the loop over the groups
ScanEnd_without_groups ==
  /\ pc = "scan"
  /\ None \in next_of(Len(arguments))
  /\ pc' = "required"
  /\ gi' = 0
  /\ UNCHANGED <<args, groups, call, argument_map, arguments, exit_code, diagnostic>>

\* `while let Some(arg) = arguments.next()` yields None: the scan is over
ScanEnd ==
  /\ pc = "scan"
  /\ None \in next_of(Len(arguments))
  /\ pc' = IF Len(groups) > 0 THEN "groups" ELSE "required"
  /\ gi' = IF Len(groups) > 0 THEN 1 ELSE 0
  /\ UNCHANGED <<args, groups, call, argument_map, arguments, exit_code, diagnostic>>

\* arg == "--help" || arg == "-h": self.help(); exit(0)
ScanHelp ==
  /\ pc = "scan"
  /\ \E o \in next_of(Len(arguments)) \ {None} :
       LET arg == o[1] IN
       /\ is_help(arg)
       /\ arguments' = Append(arguments, yielded(arg, "arg"))
       /\ Exit(0, "help", <<>>)
  /\ UNCHANGED <<args, groups, call, argument_map, gi>>

\* a token that starts with '-' and matches a Boolean spec
ScanBoolean ==
  /\ pc = "scan"
  /\ \E o \in next_of(Len(arguments)) \ {None} :
       LET arg == o[1]
           arg_name == skip_dashes(arg)
           inner == find(arg_name)
       IN
       /\ ~is_help(arg)
       /\ starts_with(arg, "-")
       /\ inner # 0
       /\ args[inner].kind = "Boolean"
       /\ arguments' = Append(arguments, yielded(arg, "arg"))
       /\ Store(inner, <<"t", "r", "u", "e">>)
  /\ UNCHANGED <<groups, call, pc, gi, exit_code, diagnostic>>

\* value_ok with the Integer branch testing value.parse::<f32>()
value_ok_integer_as_float(kind, value) ==
  CASE kind = "String" -> ~starts_with(value, "-")
    [] kind = "Integer" -> parse_f32_is_ok(value)
    [] kind = "Float" -> parse_f32_is_ok(value)

\* value_ok with the String branch lacking its starts_with('-') test
value_ok_any_string(kind, value) ==
  CASE kind = "String" -> TRUE
    [] kind = "Integer" -> parse_i32(value).ok
    [] kind = "Float" -> parse_f32_is_ok(value)

\* whether the value read for a spec of this kind is taken; and the message if not
value_ok(kind, value) ==
  CASE kind = "String" -> ~starts_with(value, "-")
    [] kind = "Integer" -> parse_i32(value).ok
    [] kind = "Float" -> parse_f32_is_ok(value)

value_message(kind) ==
  CASE kind = "String" -> "Unexpected value for argument"
    [] kind = "Integer" -> "Cannot convert into integer"
    [] kind = "Float" -> "Cannot convert into floating point number"

\* a token that starts with '-' and matches a String, Integer or Float spec:
\* the next token is read as its value
ScanValued(kind) ==
  /\ pc = "scan"
  /\ \E o \in next_of(Len(arguments)) \ {None} :
       LET arg == o[1]
           arg_name == skip_dashes(arg)
           inner == find(arg_name)
       IN
       /\ ~is_help(arg)
       /\ starts_with(arg, "-")
       /\ inner # 0
       /\ args[inner].kind = kind
       /\ \E n \in next_of(Len(arguments) + 1) :
            IF n = None
            THEN /\ arguments' = Append(arguments, yielded(arg, "arg"))
                 /\ Exit(1, "Missing value for argument", arg_name)
                 /\ UNCHANGED <<args, argument_map>>
            ELSE LET value == n[1] IN
                 /\ arguments' = arguments \o <<yielded(arg, "arg"),
                                                yielded(value, "value")>>
                 /\ IF value_ok(kind, value)
                    THEN /\ Store(inner, value)
                         /\ UNCHANGED <<pc, exit_code, diagnostic>>
                    ELSE /\ Exit(1, value_message(kind), value)
                         /\ UNCHANGED <<args, argument_map>>
  /\ UNCHANGED <<groups, call, gi>>

ScanString == ScanValued("String")

ScanInteger == ScanValued("Integer")

ScanFloat == ScanValued("Float")

\* ScanUnrecognized that skips the token and goes on with the loop
ScanUnrecognized_ignored ==
  /\ pc = "scan"
  /\ \E o \in next_of(Len(arguments)) \ {None} :
       LET arg == o[1] IN
       /\ ~is_help(arg)
       /\ starts_with(arg, "-")
       /\ find(skip_dashes(arg)) = 0
       /\ arguments' = Append(arguments, yielded(arg, "arg"))
  /\ UNCHANGED <<args, groups, call, argument_map, pc, gi, exit_code, diagnostic>>

\* a token that starts with '-' and matches no spec
ScanUnrecognized ==
  /\ pc = "scan"
  /\ \E o \in next_of(Len(arguments)) \ {None} :
       LET arg == o[1] IN
       /\ ~is_help(arg)
       /\ starts_with(arg, "-")
       /\ find(skip_dashes(arg)) = 0
       /\ arguments' = Append(arguments, yielded(arg, "arg"))
       /\ Exit(1, "Unrecognized option passed", arg)
  /\ UNCHANGED <<args, groups, call, argument_map, gi>>

\* a token that does not start with '-'
ScanUnexpected ==
  /\ pc = "scan"
  /\ \E o \in next_of(Len(arguments)) \ {None} :
       LET arg == o[1] IN
       /\ ~is_help(arg)
       /\ ~starts_with(arg, "-")
       /\ arguments' = Append(arguments, yielded(arg, "arg"))
       /\ Exit(1, "Unexpected argument option passed", arg)
  /\ UNCHANGED <<args, groups, call, argument_map, gi>>

\* ---------------------------------------------------- post-scan validation
\* self.args.iter().fold(0, ..): the specs whose name is in `names` and that
\* were scanned
count_scanned(names) ==
  Cardinality({i \in 1..Len(args) : contains(names, args[i].long_name) /\ args[i].scanned})

\* group_failure with the required Exclusive branch testing `use_count > 2`
group_failure_off_by_one(group) ==
  LET use_count == count_scanned(group.args)
      parent_count == count_scanned(group.parents)
  IN IF group.required
     THEN IF group.kind = "Exclusive"
          THEN IF use_count > 2 THEN "Misuse of exclusive argument(s)"
               ELSE IF use_count = 0 THEN "Missing required exclusive argument(s)"
               ELSE ""
          ELSE IF use_count = 0 THEN "Missing matching argument(s)"
               ELSE IF parent_count = 0 THEN "Missing matching parent argument"
               ELSE ""
     ELSE IF group.kind = "Exclusive"
          THEN IF use_count > 1 THEN "Cannot use the following arguments together"
               ELSE ""
          ELSE IF use_count > 0 /\ parent_count = 0 THEN "Missing arguments"
               ELSE ""

\* group_failure with the required OnlyWhen branch lacking its parent test
group_failure_no_parent_test(group) ==
  LET use_count == count_scanned(group.args)
      parent_count == count_scanned(group.parents)
  IN IF group.required
     THEN IF group.kind = "Exclusive"
          THEN IF use_count > 1 THEN "Misuse of exclusive argument(s)"
               ELSE IF use_count = 0 THEN "Missing required exclusive argument(s)"
               ELSE ""
          ELSE IF use_count = 0 THEN "Missing matching argument(s)"
               ELSE ""
     ELSE IF group.kind = "Exclusive"
          THEN IF use_count > 1 THEN "Cannot use the following arguments together"
               ELSE ""
          ELSE IF use_count > 0 /\ parent_count = 0 THEN "Missing arguments"
               ELSE ""

\* The body of `for group in &self.groups`: the message of the diagnostic the
\* group ends the process with, "" when the group passes.
group_failure(group) ==
  LET use_count == count_scanned(group.args)
      parent_count == count_scanned(group.parents)
  IN IF group.required
     THEN IF group.kind = "Exclusive"
          THEN IF use_count > 1 THEN "Misuse of exclusive argument(s)"
               ELSE IF use_count = 0 THEN "Missing required exclusive argument(s)"
               ELSE ""
          ELSE IF use_count = 0 THEN "Missing matching argument(s)"
               ELSE IF parent_count = 0 THEN "Missing matching parent argument"
               ELSE ""
     ELSE IF group.kind = "Exclusive"
          THEN IF use_count > 1 THEN "Cannot use the following arguments together"
               ELSE ""
          ELSE IF use_count > 0 /\ parent_count = 0 THEN "Missing arguments"
               ELSE ""

\* one iteration of `for group in &self.groups`
CheckGroup ==
  /\ pc = "groups"
  /\ LET msg == group_failure(groups[gi]) IN
     IF msg # ""
     THEN /\ Exit(1, msg, groups[gi].args)
          /\ UNCHANGED gi
     ELSE /\ pc' = IF gi < Len(groups) THEN "groups" ELSE "required"
          /\ gi' = IF gi < Len(groups) THEN gi + 1 ELSE 0
          /\ UNCHANGED <<exit_code, diagnostic>>
  /\ UNCHANGED <<args, groups, call, argument_map, arguments>>

\* the specs that self.args.iter().for_each(..) exits on
missing_required == {i \in 1..Len(args) : args[i].required /\ ~args[i].scanned}

\* first_missing with the iteration reversed
first_missing_reversed == CHOOSE i \in missing_required : \A j \in missing_required : i >= j

\* the spec for_each reaches first: iteration is in declaration order
first_missing == CHOOSE i \in missing_required : \A j \in missing_required : i <= j

\* self.args.iter().for_each(..), then ArgMap { inner: argument_map }
CheckRequired ==
  /\ pc = "required"
  /\ IF missing_required # {}
     THEN Exit(1, "Missing required argument", args[first_missing].long_name)
     ELSE /\ pc' = "returned"
          /\ UNCHANGED <<exit_code, diagnostic>>
  /\ UNCHANGED <<args, groups, call, argument_map, arguments, gi>>

\* ---------------------------------------------------------------- ArgMap
\* ArgMap::get_raw
get_raw(name) == IF name \in DOMAIN argument_map THEN Some(argument_map[name]) ELSE None

\* ArgMap::has_arg
has_arg(name) == name \in DOMAIN argument_map

\* get::<i32> falling back to a default for a name that is absent
get_i32_or_default(name) ==
  IF name \in DOMAIN argument_map THEN parse_i32(argument_map[name]) ELSE Ok(0)

\* ArgMap::get::<i32>
get_i32(name) == IF name \in DOMAIN argument_map THEN parse_i32(argument_map[name]) ELSE Err

\* ------------------------------------------------------------ specification
Next ==
  \/ \E arg \in ArgPool : Arg(arg)
  \/ \E group \in GroupPool : AddGroup(group)
  \/ ParseBegin
  \/ ScanEnd
  \/ ScanHelp
  \/ ScanBoolean
  \/ ScanString
  \/ ScanInteger
  \/ ScanFloat
  \/ ScanUnrecognized
  \/ ScanUnexpected
  \/ CheckGroup
  \/ CheckRequired

Spec == Init /\ [][Next]_vars

\* ================================================================ claims
\* The statements below are written against the specification's wording with
\* their own definitions of "observed member", "first match" and so on; the
\* operators above are the code's.

Returned == pc = "returned"
Exited == pc = "exited"

\* the process has left the check of group g behind without exiting
PastGroup(g) ==
  \/ pc \in {"required", "returned"}
  \/ pc = "groups" /\ gi > g

\* the registered specs named in `names` that were observed during the scan
Observed(names) ==
  {i \in 1..Len(args) : args[i].scanned /\ \E k \in 1..Len(names) : names[k] = args[i].long_name}

ExclusiveViolated(g) ==
  LET n == Cardinality(Observed(groups[g].args)) IN
  IF groups[g].required THEN n # 1 ELSE n > 1

ConditionalViolated(g) ==
  LET m == Cardinality(Observed(groups[g].args))
      p == Cardinality(Observed(groups[g].parents))
  IN (m > 0 /\ p = 0) \/ (groups[g].required /\ m = 0)

\* the group check that is about to run, if any
AtGroup(kind) == pc = "groups" /\ groups[gi].kind = kind

\* ---------------------------------------------------------------------- C1
\* C1: for every Exclusive group, parse gets past the group's check (and so
\* returns a mapping) only with at most one observed member, exactly one when
\* the group is required; a completed scan whose count violates this never gets
\* past the check: the check ends the process with a diagnostic and status 1.
C1_ExclusiveState ==
  \A g \in 1..Len(groups) :
    groups[g].kind = "Exclusive" =>
      /\ PastGroup(g) => ~ExclusiveViolated(g)
      /\ Returned => Cardinality(Observed(groups[g].args)) <= 1
      /\ (Exited /\ gi = g) =>
           /\ ExclusiveViolated(g)
           /\ exit_code = 1
           /\ diagnostic.msg # ""

C1_ExclusiveStep ==
  (AtGroup("Exclusive") /\ ExclusiveViolated(gi)) =>
    (pc' = "exited" /\ exit_code' = 1 /\ diagnostic'.msg # "" /\ gi' = gi)

C2_ConditionalState ==
  \A g \in 1..Len(groups) :
    groups[g].kind = "OnlyWhen" =>
      /\ PastGroup(g) => ~ConditionalViolated(g)
      /\ (Exited /\ gi = g) =>
           /\ ConditionalViolated(g)
           /\ exit_code = 1
           /\ diagnostic.msg # ""

C2_ConditionalStep ==
  AtGroup("OnlyWhen") =>
    IF ConditionalViolated(gi)
    THEN pc' = "exited" /\ exit_code' = 1 /\ diagnostic'.msg # "" /\ gi' = gi
    ELSE pc' # "exited" /\ exit_code' = -1 /\ diagnostic' = NoDiagnostic

C2_Conditional == [](C2_ConditionalState) /\ [][C2_ConditionalStep]_vars

\* a mapping is returned under a Conditional group whose member token came
\* before its parent token
C2_Witness ==
  /\ Returned
  /\ \E g \in 1..Len(groups) :
       /\ groups[g].kind = "OnlyWhen"
       /\ Cardinality(Observed(groups[g].args)) > 0
       /\ Cardinality(Observed(groups[g].parents)) > 0
       /\ Len(arguments) = 3
       /\ contains(groups[g].args, skip_dashes(arguments[1].tok))
       /\ arguments[3].tok = <<"-", "V">>

\* ---------------------------------------------------------------------- C3
HelpToken(tok) == tok = <<"-", "-", "h", "e", "l", "p">> \/ tok = <<"-", "h">>

RanAsHelp == Exited /\ exit_code = 0 /\ diagnostic.msg = "help"

\* C3 as stated: a token equal to "--help" or "-h" at any position of the token
\* stream renders the help page and ends the process with status 0, whatever
\* tokens precede it.
C3_HelpAnywhere ==
  \A k \in 1..Len(arguments) : HelpToken(arguments[k].tok) => RanAsHelp

\* C3 as amended: a token equal to "--help" or "-h" that the scan reaches as the
\* loop's current argument (every token before it was processed without ending
\* the process, and it is not read as the value of the String, Integer or Float
\* option before it) renders the help page and ends the process with status 0:
\* it is the last token read, and no group check or required-spec check has
\* run, whatever tokens precede or follow it.
C3_HelpAtLoopHead ==
  /\ \A k \in 1..Len(arguments) :
       (HelpToken(arguments[k].tok) /\ arguments[k].role = "arg") =>
         /\ RanAsHelp
         /\ k = Len(arguments)
         /\ gi = 0
  /\ diagnostic.msg = "help" =>
       /\ Len(arguments) > 0
       /\ HelpToken(arguments[Len(arguments)].tok)
       /\ arguments[Len(arguments)].role = "arg"

\* "-h" ends with the help page after an option with its value was scanned,
\* with a group registered and a required spec still unobserved
C3_Witness ==
  /\ RanAsHelp
  /\ Len(arguments) = 3
  /\ arguments[2].role = "value"
  /\ arguments[3].tok = <<"-", "h">>
  /\ Len(groups) > 0
  /\ \E i \in 1..Len(args) : args[i].required /\ ~args[i].scanned

\* ---------------------------------------------------------------------- C4
Unobserved == {i \in 1..Len(args) : args[i].required /\ ~args[i].scanned}

FirstUnobserved == CHOOSE i \in Unobserved : \A j \in 1..(i - 1) : j \notin Unobserved

MissingRequiredExit ==
  /\ pc = "exited"
  /\ exit_code = 1
  /\ diagnostic = [msg |-> "Missing required argument",
                   subject |-> args[FirstUnobserved].long_name]

\* C4: parse returns a mapping only if every registered required spec was
\* observed; when the scan is over, the group checks have passed and a required
\* spec is unobserved, the process ends with status 1 and a diagnostic naming
\* the first such spec in declaration order.  Boolean specs are never required.
C4_RequiredState ==
  /\ Returned => Unobserved = {}
  /\ \A i \in 1..Len(args) : args[i].kind = "Boolean" => ~args[i].required
  /\ (Exited /\ diagnostic.msg = "Missing required argument") =>
       (Unobserved # {} /\ MissingRequiredExit)

C4_RequiredStep ==
  pc = "required" =>
    IF Unobserved # {} THEN MissingRequiredExit' ELSE pc' = "returned"

Candidate(tok) ==
  LET dashes == {n \in 1..Len(tok) : \A k \in 1..n : tok[k] = "-"}
  IN SubSeq(tok, Cardinality(dashes) + 1, Len(tok))

\* the candidate equals the spec's name or its one-character alias
Names(c, spec) == c = spec.long_name \/ (Len(c) = 1 /\ spec.short_name = <<c[1]>>)

\* the first registered spec, in declaration order, that the token names; 0 if none
FirstMatch(tok) ==
  LET c == Candidate(tok)
      named == {i \in 1..Len(args) : Names(c, args[i])}
  IN IF named = {} THEN 0 ELSE CHOOSE i \in named : \A j \in named : i <= j

StartsWithDash(tok) == Len(tok) > 0 /\ tok[1] = "-"

\* the places of the stream where the scan read a token that supplies spec i
Supplies(i) ==
  {k \in 1..Len(arguments) : arguments[k].role = "arg" /\ FirstMatch(arguments[k].tok) = i}

Supplied == {i \in 1..Len(args) : Supplies(i) # {}}

LastSupply(i) == CHOOSE k \in Supplies(i) : \A j \in Supplies(i) : j <= k

Valued(i) == args[i].kind \in {"String", "Integer", "Float"}

\* a spec as it was registered
AsRegistered(spec) == [spec EXCEPT !.scanned = FALSE]

Registered == [i \in 1..Len(args) |-> AsRegistered(args[i])]

Tokens == [k \in 1..Len(arguments) |-> arguments[k].tok]

True == <<"t", "r", "u", "e">>

\* ---------------------------------------------------------------------- C5
\* C5 as stated: for every registered boolean spec, if the token stream of a
\* successful parse contains a token that, with its leading dashes stripped,
\* equals the spec's name or its one-character alias, the mapping holds "true"
\* under the spec's name and no following token was read as its value; if no
\* such token occurs, has_arg(name) is false.
C5_AnyNamingToken ==
  Returned =>
    \A i \in 1..Len(args) :
      args[i].kind = "Boolean" =>
        LET at == {k \in 1..Len(arguments) : Names(Candidate(arguments[k].tok), args[i])}
        IN IF at # {}
           THEN /\ get_raw(args[i].long_name) = Some(True)
                /\ \A k \in at : k < Len(arguments) => arguments[k + 1].role # "value"
           ELSE ~has_arg(args[i].long_name)

\* C5 as amended: for every registered boolean spec (spec names being unique),
\* if the token stream of a successful parse contains a token that the scan read
\* as the loop's current argument, not as the value of the option before it, and
\* this spec is the first registered spec that the stripped token names, the
\* mapping holds "true" under the spec's name (also when matched by alias) and
\* the following token was not read as its value; if no token of the stream
\* names the spec, has_arg(name) is false.
C5_BooleanFlag ==
  Returned =>
    \A i \in 1..Len(args) :
      args[i].kind = "Boolean" =>
        /\ \A k \in Supplies(i) :
             /\ get_raw(args[i].long_name) = Some(True)
             /\ k < Len(arguments) => arguments[k + 1].role = "arg"
        /\ (\A k \in 1..Len(arguments) : ~Names(Candidate(arguments[k].tok), args[i]))
             => ~has_arg(args[i].long_name)

\* a boolean spec matched by its alias, another option following it
C5_Witness ==
  /\ Returned
  /\ \E i \in 1..Len(args) :
       /\ args[i].kind = "Boolean"
       /\ \E k \in Supplies(i) :
            /\ arguments[k].tok = <<"-", args[i].short_name[1]>>
            /\ k < Len(arguments)

\* ---------------------------------------------------------------------- C6
ExampleSpecs == <<Arg_boolean(n_verbose, Some("V")), Arg_string(n_path, Some("f"), TRUE)>>

ExampleTokens == << <<"-", "f">>, <<"/", "t", "m", "p">>, <<"-", "V">> >>

ExampleMap == [n \in {n_path, n_verbose} |-> IF n = n_path THEN <<"/", "t", "m", "p">> ELSE True]

\* C6: for every String, Integer or Float spec that a successful parse supplies
\* with a value, get_raw(name) is that value token, verbatim (the value of the
\* spec's last occurrence when the option is repeated); the mapping holds
\* exactly one entry per supplied spec; and ["-f", "/tmp", "-V"] against
\* boolean verbose/V and required string path/f gives exactly
\* {path: "/tmp", verbose: "true"}.
C6_RawValue ==
  Returned =>
    /\ \A i \in Supplied :
         Valued(i) =>
           /\ LastSupply(i) < Len(arguments)
           /\ arguments[LastSupply(i) + 1].role = "value"
           /\ get_raw(args[i].long_name) = Some(arguments[LastSupply(i) + 1].tok)
    /\ DOMAIN argument_map = {args[i].long_name : i \in Supplied}
    /\ Cardinality(DOMAIN argument_map) = Cardinality(Supplied)
    /\ (Registered = ExampleSpecs /\ Tokens = ExampleTokens) => argument_map = ExampleMap

\* the example of the claim
C6_Witness ==
  /\ Returned
  /\ Registered = ExampleSpecs
  /\ Tokens = ExampleTokens
  /\ argument_map = ExampleMap

\* ---------------------------------------------------------------------- C7
\* decimal digits without their leading zeros
RECURSIVE Significant(_)
Significant(ds) ==
  IF Len(ds) > 1 /\ ds[1] = "0" THEN Significant(Tail(ds)) ELSE ds

\* digit strings of one length, compared as numbers
AtMost(ds, limit) ==
  \/ ds = limit
  \/ \E k \in 1..Len(ds) :
       /\ \A j \in 1..(k - 1) : ds[j] = limit[j]
       /\ DigitVal(ds[k]) < DigitVal(limit[k])

\* the token is a decimal literal of a signed 32-bit integer: an optional sign
\* and one or more digits, from -2147483648 to 2147483647
IsI32Literal(tok) ==
  LET signed == Len(tok) > 0 /\ tok[1] \in {"+", "-"}
      ds == IF signed THEN Tail(tok) ELSE tok
      limit == IF Len(tok) > 0 /\ tok[1] = "-"
               THEN <<"2", "1", "4", "7", "4", "8", "3", "6", "4", "8">>
               ELSE <<"2", "1", "4", "7", "4", "8", "3", "6", "4", "7">>
  IN /\ Len(ds) > 0
     /\ \A k \in 1..Len(ds) : IsDigit(ds[k])
     /\ \/ Len(Significant(ds)) < Len(limit)
        \/ Len(Significant(ds)) = Len(limit) /\ AtMost(Significant(ds), limit)

\* the value read for a spec of this kind cannot be converted
Unconvertible(kind, value) ==
  \/ kind = "Integer" /\ ~IsI32Literal(value)
  \/ kind = "Float" /\ ~parse_f32_is_ok(value)

ConversionMessage(kind) ==
  IF kind = "Integer" THEN "Cannot convert into integer"
  ELSE "Cannot convert into floating point number"

\* the loop iteration of this step read an option and a value for it
ReadsValue == pc = "scan" /\ Len(arguments') = Len(arguments) + 2

\* C7: when the value token after a matched Integer spec is no signed 32-bit
\* integer (a value out of the 32-bit range included), or the value token after
\* a matched Float spec is no 32-bit float, that iteration ends the process with
\* the conversion diagnostic and status 1: it does not mark the spec observed,
\* does not touch the mapping, and no mapping is returned; the mapping never
\* holds an unconvertible value for an Integer or Float spec.
C7_ConversionStep ==
  ReadsValue =>
    LET i == FirstMatch(arguments'[Len(arguments) + 1].tok)
        value == arguments'[Len(arguments) + 2].tok
    IN (i # 0 /\ Unconvertible(args[i].kind, value)) =>
         /\ pc' = "exited"
         /\ exit_code' = 1
         /\ diagnostic' = [msg |-> ConversionMessage(args[i].kind), subject |-> value]
         /\ args' = args
         /\ argument_map' = argument_map

C7_ConversionState ==
  \A i \in 1..Len(args) :
    (args[i].scanned /\ has_arg(args[i].long_name)) =>
      ~Unconvertible(args[i].kind, argument_map[args[i].long_name])

RECURSIVE Magnitude(_)
Magnitude(ds) ==
  IF Len(ds) = 0 THEN 0
  ELSE Magnitude(SubSeq(ds, 1, Len(ds) - 1)) * 10 + DigitVal(ds[Len(ds)])

\* the integer a decimal literal denotes
Denotes(tok) ==
  IF tok[1] = "-" THEN -Magnitude(Tail(tok))
  ELSE IF tok[1] = "+" THEN Magnitude(Tail(tok))
  ELSE Magnitude(tok)

\* the names a caller asks the ArgMap for
NamePool == {n_verbose, n_path, n_count, n_rate, n_json, n_help}

\* C8: for every registered Integer spec that a successful scan supplies, by
\* name or by alias, with the value token v (the value of its last occurrence
\* when the option is repeated), get::<i32>(name) on the returned mapping is Ok
\* of the integer v denotes; tokens ["-c", "5"] against integer count/c give
\* get::<i32>("count") = 5; get on a name absent from the mapping is an error,
\* never a default value.
C8_RoundTrip ==
  Returned =>
    /\ \A i \in Supplied :
         args[i].kind = "Integer" =>
           get_i32(args[i].long_name) = Ok(Denotes(arguments[LastSupply(i) + 1].tok))
    /\ (Registered = <<Arg_integer(n_count, Some("c"), FALSE)>>
          /\ Tokens = << <<"-", "c">>, <<"5">> >>) => get_i32(n_count) = Ok(5)
    /\ \A name \in NamePool : ~has_arg(name) => ~get_i32(name).ok

\* integer count supplied by its alias with "-5", and read back as -5
C8_Witness ==
  /\ Returned
  /\ \E i \in Supplied :
       /\ args[i].kind = "Integer"
       /\ arguments[LastSupply(i)].tok = <<"-", "c">>
       /\ arguments[LastSupply(i) + 1].tok = <<"-", "5">>
       /\ get_i32(args[i].long_name) = Ok(-5)
  /\ ~has_arg(n_verbose)

\* ---------------------------------------------------------------------- C9
\* the loop head of this step read a token
ReadsArg == pc = "scan" /\ Len(arguments') > Len(arguments)

\* C9: during the scan, a token read as the loop's current argument that is not
\* the parser's own --help or -h and that either begins with '-' and matches no
\* registered spec by name or one-character alias, or does not begin with '-',
\* ends the process at that token with a diagnostic and status 1: the token is
\* not skipped, nothing is stored in the mapping, no mapping is returned.
C9_RejectStep ==
  ReadsArg =>
    LET arg == arguments'[Len(arguments) + 1].tok IN
    (~HelpToken(arg) /\ (~StartsWithDash(arg) \/ FirstMatch(arg) = 0)) =>
      /\ pc' = "exited"
      /\ exit_code' = 1
      /\ diagnostic' = [msg |-> IF StartsWithDash(arg) THEN "Unrecognized option passed"
                                ELSE "Unexpected argument option passed",
                        subject |-> arg]
      /\ Len(arguments') = Len(arguments) + 1
      /\ args' = args
      /\ argument_map' = argument_map

C9_RejectState ==
  \A k \in 1..Len(arguments) :
    (/\ arguments[k].role = "arg"
     /\ ~HelpToken(arguments[k].tok)
     /\ ~StartsWithDash(arguments[k].tok) \/ FirstMatch(arguments[k].tok) = 0) =>
      /\ Exited
      /\ exit_code = 1
      /\ k = Len(arguments)

Reserved(spec) == spec.long_name = <<"h", "e", "l", "p">> \/ spec.short_name = <<"h">>

\* C10: registration is append-only and filters reserved names: a call of arg()
\* appends the supplied spec to the spec list unless it is named "help" or
\* aliased 'h', and then leaves the spec list unchanged; it never changes the
\* group list; add_group never changes the spec list.  So the spec list is the
\* sequence of supplied specs, in call order, that are not reserved.
C10_RegistrationStep ==
  /\ (pc' = "build" /\ call'.op = "arg") =>
       /\ args' = IF Reserved(call'.arg) THEN args ELSE Append(args, call'.arg)
       /\ groups' = groups
  /\ (pc' = "build" /\ call'.op = "add_group") =>
       /\ args' = args
       /\ groups' = Append(groups, call'.group)

C10_RegistrationState ==
  \A i \in 1..Len(args) : ~Reserved(args[i]) /\ AsRegistered(args[i]) \in ArgPool

C10_Registration == [](C10_RegistrationState) /\ [][C10_RegistrationStep]_vars

\* a spec aliased 'h' was just passed to arg() and dropped, after a spec and a
\* group were registered
C10_Witness ==
  /\ pc = "build"
  /\ call.op = "arg"
  /\ call.arg.short_name = <<"h">>
  /\ call.arg.long_name # <<"h", "e", "l", "p">>
  /\ Len(args) = 1
  /\ Len(groups) = 1

\* --------------------------------------------------------------------- C11
GroupViolated(g) ==
  IF groups[g].kind = "Exclusive" THEN ExclusiveViolated(g) ELSE ConditionalViolated(g)

InValidation == pc \in {"groups", "required"}

GroupMessages ==
  { "Misuse of exclusive argument(s)", "Missing required exclusive argument(s)",
    "Missing matching argument(s)", "Missing matching parent argument",
    "Cannot use the following arguments together", "Missing arguments" }

GroupDiagnostic == Exited /\ diagnostic.msg \in GroupMessages

RequiredDiagnostic == Exited /\ diagnostic.msg = "Missing required argument"

\* every token read so far was processed without ending the process
ScanCompleted ==
  \A k \in 1..Len(arguments) :
    arguments[k].role = "arg" =>
      /\ ~HelpToken(arguments[k].tok)
      /\ StartsWithDash(arguments[k].tok)
      /\ FirstMatch(arguments[k].tok) # 0
      /\ Valued(FirstMatch(arguments[k].tok)) =>
           (k < Len(arguments) /\ arguments[k + 1].role = "value")

\* C11: post-scan validation is reached only from a scan that read the token
\* stream to its end without ending the process; the group checks then run in
\* group-declaration order, followed by the required-spec check; the first
\* failing check ends the process, so a run emits at most one diagnostic and a
\* run that ends in validation emits exactly one; when a group check and the
\* required-spec check would both fail, the group's diagnostic is reported.
C11_OrderState ==
  /\ (InValidation \/ Returned) =>
       (exit_code = -1 /\ diagnostic = NoDiagnostic /\ ScanCompleted)
  /\ pc = "groups" =>
       (gi \in 1..Len(groups) /\ \A g \in 1..(gi - 1) : ~GroupViolated(g))
  /\ pc = "required" => \A g \in 1..Len(groups) : ~GroupViolated(g)
  /\ GroupDiagnostic =>
       /\ ScanCompleted
       /\ gi \in 1..Len(groups)
       /\ \A g \in 1..(gi - 1) : ~GroupViolated(g)
       /\ GroupViolated(gi)
       /\ exit_code = 1
       /\ diagnostic.subject = groups[gi].args
  /\ RequiredDiagnostic =>
       /\ ScanCompleted
       /\ \A g \in 1..Len(groups) : ~GroupViolated(g)
       /\ Unobserved # {}
       /\ exit_code = 1
  /\ Exited => diagnostic.msg # ""

C11_OrderStep ==
  /\ pc # "exited" /\ pc # "returned" /\ diagnostic = NoDiagnostic
  /\ pc' = "groups" => (pc = "groups" \/ (pc = "scan" /\ gi' = 1 /\ arguments' = arguments))
  /\ pc' = "required" =>
       \/ pc = "groups" /\ gi = Len(groups)
       \/ pc = "scan" /\ Len(groups) = 0 /\ arguments' = arguments
  /\ (pc = "scan" /\ arguments' = arguments) => InValidation'
  /\ InValidation => (arguments' = arguments /\ args' = args /\ argument_map' = argument_map)
  /\ pc = "groups" =>
       IF GroupViolated(gi)
       THEN GroupDiagnostic' /\ gi' = gi
       ELSE IF gi < Len(groups) THEN pc' = "groups" /\ gi' = gi + 1 ELSE pc' = "required"
  /\ pc = "required" =>
       IF Unobserved # {} THEN RequiredDiagnostic' ELSE Returned'

MissingValue(tok) ==
  /\ pc = "exited"
  /\ exit_code = 1
  /\ diagnostic = [msg |-> "Missing value for argument", subject |-> Candidate(tok)]

UnexpectedValue(value) ==
  /\ pc = "exited"
  /\ exit_code = 1
  /\ diagnostic = [msg |-> "Unexpected value for argument", subject |-> value]

\* the token at place k was read as an option that takes a value
ValuedOption(k) ==
  /\ arguments[k].role = "arg"
  /\ ~HelpToken(arguments[k].tok)
  /\ StartsWithDash(arguments[k].tok)
  /\ FirstMatch(arguments[k].tok) # 0
  /\ Valued(FirstMatch(arguments[k].tok))

\* C12: a matched String, Integer or Float option is never recorded without a
\* value token.  When the stream is exhausted right after the option, the
\* process ends with the "missing value" diagnostic and status 1; when a
\* matched String option is followed by a token that begins with '-', the
\* process ends with the "unexpected value" diagnostic and status 1.  In both
\* cases the spec is not marked observed and the mapping is not modified, and
\* no token that begins with '-' is ever kept as the value of a String option.
C12_ValueStep ==
  ReadsArg =>
    LET tok == arguments'[Len(arguments) + 1].tok
        i == FirstMatch(tok)
    IN (~HelpToken(tok) /\ StartsWithDash(tok) /\ i # 0 /\ Valued(i)) =>
         /\ Len(arguments') \in {Len(arguments) + 1, Len(arguments) + 2}
         /\ Len(arguments') = Len(arguments) + 1 =>
              /\ pc' = "exited"
              /\ exit_code' = 1
              /\ diagnostic' = [msg |-> "Missing value for argument",
                                subject |-> Candidate(tok)]
              /\ args' = args
              /\ argument_map' = argument_map
         /\ Len(arguments') = Len(arguments) + 2 =>
              /\ arguments'[Len(arguments) + 2].role = "value"
              /\ (args[i].kind = "String"
                    /\ StartsWithDash(arguments'[Len(arguments) + 2].tok)) =>
                   /\ pc' = "exited"
                   /\ exit_code' = 1
                   /\ diagnostic' = [msg |-> "Unexpected value for argument",
                                     subject |-> arguments'[Len(arguments) + 2].tok]
                   /\ args' = args
                   /\ argument_map' = argument_map

C12_ValueState ==
  /\ \A k \in 1..Len(arguments) :
       (/\ arguments[k].role = "arg"
        /\ StartsWithDash(arguments[k].tok)
        /\ ~HelpToken(arguments[k].tok)) =>
         LET i == FirstMatch(arguments[k].tok) IN
         (i # 0 /\ Valued(i)) =>
           /\ k = Len(arguments) => MissingValue(arguments[k].tok)
           /\ k < Len(arguments) =>
                /\ arguments[k + 1].role = "value"
                /\ (args[i].kind = "String" /\ StartsWithDash(arguments[k + 1].tok)) =>
                     (k + 1 = Len(arguments) /\ UnexpectedValue(arguments[k + 1].tok))
  /\ \A i \in 1..Len(args) :
       (Valued(i) /\ args[i].scanned) =>
         /\ has_arg(args[i].long_name)
         /\ \E k \in 1..(Len(arguments) - 1) :
              /\ arguments[k].role = "arg"
              /\ arguments[k + 1].role = "value"
              /\ argument_map[args[i].long_name] = arguments[k + 1].tok
              /\ FirstMatch(arguments[k].tok) = i
         /\ args[i].kind = "String" => ~StartsWithDash(argument_map[args[i].long_name])
  /\ (diagnostic.msg \in {"Missing value for argument", "Unexpected value for argument"}) =>
       /\ Exited
       /\ exit_code = 1
       /\ Len(arguments) > 0
       /\ \/ ValuedOption(Len(arguments))
          \/ /\ Len(arguments) > 1
             /\ ValuedOption(Len(arguments) - 1)
             /\ args[FirstMatch(arguments[Len(arguments) - 1].tok)].kind = "String"

C12_ValueRequired == [](C12_ValueState) /\ [][C12_ValueStep]_vars

\* a String option followed by the flag of a registered boolean spec: the
\* process ends with "unexpected value", with nothing observed or stored
C12_Witness ==
  /\ Len(arguments) = 2
  /\ UnexpectedValue(arguments[2].tok)
  /\ ValuedOption(1)
  /\ FirstMatch(arguments[2].tok) # 0
  /\ args[FirstMatch(arguments[2].tok)].kind = "Boolean"
  /\ \A i \in 1..Len(args) : ~args[i].scanned
  /\ argument_map = EmptyMap

\* --------------------------------------------------------------------- C13
\* the registered specs whose observed flag is set
ObservedSpecs == {i \in 1..Len(args) : args[i].scanned}

ObservedNames == {args[i].long_name : i \in ObservedSpecs}

\* C13: at every point of the scan and in the mapping returned, the keys of the
\* mapping are the names of the registered specs whose observed flag is set; an
\* observed flag, once set, is never cleared; a repeated occurrence of an option
\* overwrites the stored value (the last occurrence wins) and leaves the key
\* set and the observed specs, which the group checks count, as they were.
C13_KeysState ==
  /\ DOMAIN argument_map = ObservedNames
  /\ pc # "exited" =>
       LET matched == [k \in 1..Len(arguments) |->
                         IF arguments[k].role = "arg" THEN FirstMatch(arguments[k].tok) ELSE 0]
           last(i) == CHOOSE k \in 1..Len(arguments) :
                        matched[k] = i /\ \A j \in (k + 1)..Len(arguments) : matched[j] # i
       IN /\ ObservedSpecs = {matched[k] : k \in 1..Len(arguments)} \ {0}
          /\ \A i \in ObservedSpecs :
               argument_map[args[i].long_name] =
                 IF args[i].kind = "Boolean" THEN True ELSE arguments[last(i) + 1].tok

C13_KeysStep ==
  /\ \A i \in 1..Len(args) : args[i].scanned => (Len(args') >= i /\ args'[i].scanned)
  /\ (ReadsArg /\ pc' # "exited") =>
       LET tok == arguments'[Len(arguments) + 1].tok
           i == FirstMatch(tok)
           value == IF args[i].kind = "Boolean" THEN True
                    ELSE arguments'[Len(arguments) + 2].tok
       IN /\ i # 0
          /\ argument_map' = [n \in DOMAIN argument_map \cup {args[i].long_name} |->
                                IF n = args[i].long_name THEN value ELSE argument_map[n]]
          /\ args' = [args EXCEPT ![i].scanned = TRUE]
          /\ args[i].scanned =>
               /\ DOMAIN argument_map' = DOMAIN argument_map
               /\ ObservedSpecs' = ObservedSpecs
               /\ \A g \in 1..Len(groups) :
                    /\ Cardinality(Observed(groups[g].args)') = Cardinality(Observed(groups[g].args))
                    /\ Cardinality(Observed(groups[g].parents)') =
                         Cardinality(Observed(groups[g].parents))
  /\ (pc \in {"scan", "groups", "required"} /\ ~(ReadsArg /\ pc' # "exited")) =>
       (args' = args /\ argument_map' = argument_map)

====
